---- MODULE Spec2Model ----
(***************************************************************************)
(* Model of the recording lifecycle and log fan-out of recorder_server.py. *)
(*                                                                         *)
(* Threads of the program and how they appear here:                        *)
(*   - request handlers start_recording / stop_recording (sync endpoints,  *)
(*     run on a thread pool, so several may be in flight at once);         *)
(*   - one ffmpeg_worker thread per successful start, which spawns the     *)
(*     capture process, clears the history, starts the two reader threads, *)
(*     waits for the process and clears the handle;                        *)
(*   - two read_output threads per process (stdout, stderr);               *)
(*   - one websocket_logs coroutine per connected client;                  *)
(*   - the signal handler, which ends the whole program with os._exit.     *)
(* A step of a thread is one access to shared state (a global, the deque,  *)
(* the queue, the child process); everything local in between is folded    *)
(* into the step.                                                          *)
(***************************************************************************)
EXTENDS Integers, Sequences, FiniteSets, TLC

\* ---------------------------------------------------------------- bounds
\* A run is bounded by the number of start requests, stop requests, lines the
\* capture processes print (all streams together) and websocket clients in it.
\* Six kinds of run are explored:
\*   session runs: every kind of start request, stop requests, no log traffic;
\*   stopping runs: one recording and several stop requests, no log traffic;
\*   fan-out runs: one recording, its lines, and the websocket clients;
\*   re-start runs: recordings one after (or beside) another, a line, a client;
\*   filename runs: output file names generated as the wall clock advances;
\*   replay runs: a recording that has printed about as many lines as a replay
\*     holds, more lines, and the websocket clients.
SessionStarts == 2
SessionStops == 1
StoppingStops == 2
FanoutLines == 2
FanoutSubs == 2
RestartStarts == 2
RestartLines == 1
RestartSubs == 1
FilenameCalls == 2
ReplayLines == 2
ReplaySubs == 1

Max(a, b) == IF a >= b THEN a ELSE b

StartIds == 1..Max(SessionStarts, RestartStarts)
StopIds == 1..Max(SessionStops, StoppingStops)
SubIds == 1..Max(Max(FanoutSubs, RestartSubs), ReplaySubs)
Origins == {"stdout", "stderr"}

\* ------------------------------------------------------ program constants
None == 0

BITRATES == {"500k", "1M", "2M", "4M"}
RESOLUTIONS == {"1920x1080", "1600x1200", "1360x768", "1280x1024", "1280x960",
                "1280x720", "1024x768", "800x600", "720x576", "720x480", "640x480"}
FORMATS == {"mp4", "avi"}
DEFAULT_BITRATE == "2M"
DEFAULT_RESOLUTION == "1280x720"
DEFAULT_FORMAT == "mp4"
\* deque(maxlen=2000)
HISTORY_MAXLEN == 2000
\* list(ffmpeg_log_lines)[-200:]
REPLAY_LEN == 200

\* ------------------------------------------------------------ the inputs
\* A device parameter that was not supplied (audio_device: str = None).
Missing == "<none>"
AudioIds == {"hw:0"}
VideoIds == {"/dev/video0"}

DefaultConfig ==
  [bitrate |-> DEFAULT_BITRATE, resolution |-> DEFAULT_RESOLUTION,
   format |-> DEFAULT_FORMAT, audio_device |-> "hw:0", video_device |-> "/dev/video0"]

\* What get_audio_devices() / get_video_devices() return to one request.
AllPresent == [audio |-> AudioIds, video |-> VideoIds]

\* The requests tried, each with the device lists enumerated for it: the
\* defaults with valid devices, every variant that changes one field, and the
\* defaults when a device has gone from the enumerated list.
Inputs ==
  {[cfg |-> c, devs |-> AllPresent] :
     c \in {DefaultConfig}
       \cup {[DefaultConfig EXCEPT !.bitrate = b] : b \in {"900k"}}
       \cup {[DefaultConfig EXCEPT !.resolution = r] : r \in {"999x999"}}
       \cup {[DefaultConfig EXCEPT !.format = f] : f \in {"avi", "mkv"}}
       \cup {[DefaultConfig EXCEPT !.audio_device = a] : a \in {Missing, "hw:9"}}
       \cup {[DefaultConfig EXCEPT !.video_device = v] : v \in {Missing, "/dev/video9"}}}
  \cup {[cfg |-> DefaultConfig, devs |-> [AllPresent EXCEPT !.audio = {}]],
        [cfg |-> DefaultConfig, devs |-> [AllPresent EXCEPT !.video = {}]]}

SessionBounds ==
  [starts |-> SessionStarts, stops |-> SessionStops, lines |-> 0, subs |-> 0,
   inputs |-> Inputs]
StoppingBounds ==
  [starts |-> 1, stops |-> StoppingStops, lines |-> 0, subs |-> 0,
   inputs |-> {[cfg |-> DefaultConfig, devs |-> AllPresent]}]
FanoutBounds ==
  [starts |-> 1, stops |-> 0, lines |-> FanoutLines, subs |-> FanoutSubs,
   inputs |-> {[cfg |-> DefaultConfig, devs |-> AllPresent]}]
RestartBounds ==
  [starts |-> RestartStarts, stops |-> 0, lines |-> RestartLines,
   subs |-> RestartSubs, inputs |-> {[cfg |-> DefaultConfig, devs |-> AllPresent]}]
FilenameBounds ==
  [starts |-> 0, stops |-> 0, lines |-> 0, subs |-> 0, inputs |-> {}]
\* A replay run begins with one line fewer than list(...)[-200:] keeps, or as
\* many, or one more, and ends at ReplayLines lines above that number.
ReplayBounds ==
  [starts |-> 1, stops |-> 0, lines |-> REPLAY_LEN + ReplayLines, subs |-> ReplaySubs,
   inputs |-> {[cfg |-> DefaultConfig, devs |-> AllPresent]}]
ReplayStartLens == {REPLAY_LEN - 1, REPLAY_LEN, REPLAY_LEN + 1}
Runs == {"session", "stopping", "fanout", "restart", "filename", "replay"}
Bounds(r) ==
  IF r = "session" THEN SessionBounds
  ELSE IF r = "stopping" THEN StoppingBounds
  ELSE IF r = "fanout" THEN FanoutBounds
  ELSE IF r = "restart" THEN RestartBounds
  ELSE IF r = "filename" THEN FilenameBounds
  ELSE ReplayBounds

\* The wall clock, datetime.now(): a reading [Y, M, D, h, m, s]. The file
\* names are generated from readings just before and after the second, the
\* minute, the hour, the day, the month and the year turn, in leap years and
\* others.
Dates ==
  {[Y |-> 2024, M |-> 1, D |-> 9], [Y |-> 2024, M |-> 2, D |-> 28],
   [Y |-> 2024, M |-> 2, D |-> 29], [Y |-> 2023, M |-> 2, D |-> 28],
   [Y |-> 2024, M |-> 9, D |-> 30], [Y |-> 2024, M |-> 12, D |-> 31]}
Times ==
  {[h |-> hh, m |-> mm, s |-> ss] : hh \in {0, 9, 23}, mm \in {0, 9, 59},
                                     ss \in {0, 8, 9, 58, 59}}
Reading(d, t) == [Y |-> d.Y, M |-> d.M, D |-> d.D, h |-> t.h, m |-> t.m, s |-> t.s]
ClockInputs == {Reading(d, t) : d \in Dates, t \in Times}
\* The reading in the runs that generate no name.
ClockStart == Reading([Y |-> 2024, M |-> 1, D |-> 9], [h |-> 9, m |-> 0, s |-> 0])

VARIABLES
  run,              \* the kind of run this is, one of Runs
  ffmpeg_process,   \* the global handle: None or the id of a process
  shutdown_event,   \* threading.Event
  server,           \* position of the signal handler: "up", "terminate", "exited"
  proc,             \* per process id: "none", "alive" or "exited"
  sigint,           \* per process id: number of SIGINTs sent to it
  sigterm,          \* per process id: whether SIGTERM was sent to it
  spc,              \* per start request: position in start_recording
  sres,             \* per start request: the response
  peers,            \* per successful start request: the start requests in flight at its return
  wpc,              \* per worker thread: position in ffmpeg_worker
  tpc,              \* per stop request: position in stop_recording
  tres,             \* per stop request: the response
  ttarget,          \* per stop request: the process its send_signal addressed
  ffmpeg_log_lines, \* the history deque
  ffmpeg_log_queue, \* the queue.Queue the websocket handlers drain
  rpc,              \* per process and stream: position in read_output
  nread,            \* per process and stream: lines read so far
  published,        \* every entry appended to the history so far, in order
  ws_pc,            \* per websocket client: position in websocket_logs
  received,         \* per websocket client: the entries sent to it, in order
  replayed,         \* per websocket client: how many of them were the replay
  attachedAt,       \* per websocket client: Len(published) when it took its snapshot
  now,              \* the wall clock: what datetime.now() returns
  names             \* the output file names generated: when, for which format, the name

life == <<run, ffmpeg_process, shutdown_event, server, proc, sigint, sigterm>>
starts == <<spc, sres, peers>>
stops == <<tpc, tres, ttarget>>
logs == <<ffmpeg_log_lines, ffmpeg_log_queue, published>>
readers == <<rpc, nread>>
subs == <<ws_pc, received, replayed, attachedAt>>
files == <<now, names>>

vars == <<run, ffmpeg_process, shutdown_event, server, proc, sigint, sigterm,
          spc, sres, peers, wpc, tpc, tres, ttarget,
          ffmpeg_log_lines, ffmpeg_log_queue, rpc, nread, published,
          ws_pc, received, replayed, attachedAt, now, names>>

\* ------------------------------------------------------------- is_recording
\* poll() is None: the child has not terminated.
Alive(p) == p # None /\ proc[p] = "alive"

\* The two reads of the global in the one expression are one step: the
\* interpreter switches threads on calls and backward jumps, and neither lies
\* between them.
is_recording == ffmpeg_process # None /\ Alive(ffmpeg_process)

\* GET /status
status == [recording |-> is_recording]

\* --------------------------------------------------------------- validation
\* The validation without its bitrate test.
InvalidReasonNoBitrate(cfg, devs) ==
  IF cfg.resolution \notin RESOLUTIONS THEN "Invalid resolution"
  ELSE IF cfg.format \notin FORMATS THEN "Invalid format"
  ELSE IF cfg.audio_device = Missing \/ cfg.audio_device \notin devs.audio
    THEN "Valid audio device is required"
  ELSE IF cfg.video_device = Missing \/ cfg.video_device \notin devs.video
    THEN "Valid video device is required"
  ELSE "ok"

\* Lines 347-356 of start_recording: the first test that fails names the error.
InvalidReason(cfg, devs) ==
  IF cfg.bitrate \notin BITRATES THEN "Invalid bitrate"
  ELSE IF cfg.resolution \notin RESOLUTIONS THEN "Invalid resolution"
  ELSE IF cfg.format \notin FORMATS THEN "Invalid format"
  ELSE IF cfg.audio_device = Missing \/ cfg.audio_device \notin devs.audio
    THEN "Valid audio device is required"
  ELSE IF cfg.video_device = Missing \/ cfg.video_device \notin devs.video
    THEN "Valid video device is required"
  ELSE "ok"

\* ------------------------------------------------------------- log entries
LogEntry(p, o, n) == [type |-> o, data |-> <<p, n>>]

\* xs[-(n + 1):]
LastNOneMore(xs, n) ==
  IF Len(xs) <= n + 1 THEN xs ELSE SubSeq(xs, Len(xs) - n, Len(xs))

\* xs[-n:]
LastN(xs, n) == IF Len(xs) <= n THEN xs ELSE SubSeq(xs, Len(xs) - n + 1, Len(xs))

\* deque.append with maxlen: the oldest entry goes when the deque is full.
DequeAppend(xs, e) == LastN(Append(xs, e), HISTORY_MAXLEN)

\* GET /logs
get_logs == [logs |-> LastN(ffmpeg_log_lines, REPLAY_LEN)]

\* ------------------------------------------------------ get_output_filename
RECORDINGS_DIR == "recordings"

Digit(n) == <<"0", "1", "2", "3", "4", "5", "6", "7", "8", "9">>[n + 1]

\* The decimal digits of n, zero-padded to width w (%Y, %m, %d, %H, %M, %S).
RECURSIVE Padded(_, _)
Padded(n, w) == IF w = 0 THEN <<>> ELSE Append(Padded(n \div 10, w - 1), Digit(n % 10))

\* strftime("%Y%m%d-%H%M")
strftimeNoSeconds(t) ==
  Padded(t.Y, 4) \o Padded(t.M, 2) \o Padded(t.D, 2) \o <<"-">>
    \o Padded(t.h, 2) \o Padded(t.m, 2)

\* strftime("%Y%m%d-%H%M%S")
strftime(t) ==
  Padded(t.Y, 4) \o Padded(t.M, 2) \o Padded(t.D, 2) \o <<"-">>
    \o Padded(t.h, 2) \o Padded(t.m, 2) \o Padded(t.s, 2)

\* get_output_filename with a timestamp to the minute.
get_output_filenameNoSeconds(t, format) ==
  <<RECORDINGS_DIR, "/", "output-">> \o strftimeNoSeconds(t)
    \o <<IF format = "mp4" THEN ".mp4" ELSE ".avi">>

\* Lines 209-212, at the reading t: the path, as the sequence of its pieces.
get_output_filename(t, format) ==
  <<RECORDINGS_DIR, "/", "output-">> \o strftime(t)
    \o <<IF format = "mp4" THEN ".mp4" ELSE ".avi">>

IsLeap(y) == (y % 4 = 0 /\ y % 100 # 0) \/ y % 400 = 0
DaysIn(y, mo) ==
  IF mo = 2 THEN (IF IsLeap(y) THEN 29 ELSE 28)
  ELSE IF mo \in {4, 6, 9, 11} THEN 30 ELSE 31

\* The reading one second after t.
NextSecond(t) ==
  IF t.s < 59 THEN [t EXCEPT !.s = @ + 1]
  ELSE IF t.m < 59 THEN [t EXCEPT !.s = 0, !.m = @ + 1]
  ELSE IF t.h < 23 THEN [t EXCEPT !.s = 0, !.m = 0, !.h = @ + 1]
  ELSE IF t.D < DaysIn(t.Y, t.M) THEN [t EXCEPT !.s = 0, !.m = 0, !.h = 0, !.D = @ + 1]
  ELSE IF t.M < 12 THEN [t EXCEPT !.s = 0, !.m = 0, !.h = 0, !.D = 1, !.M = @ + 1]
  ELSE [t EXCEPT !.s = 0, !.m = 0, !.h = 0, !.D = 1, !.M = 1, !.Y = @ + 1]

\* ------------------------------------------------------------------- Init
InitRun(r) ==
  /\ run = r
  /\ ffmpeg_process = None
  /\ shutdown_event = FALSE
  /\ server = "up"
  /\ proc = [p \in StartIds |-> "none"]
  /\ sigint = [p \in StartIds |-> 0]
  /\ sigterm = [p \in StartIds |-> FALSE]
  /\ spc = [c \in StartIds |-> "new"]
  /\ sres = [c \in StartIds |-> "none"]
  /\ peers = [c \in StartIds |-> {}]
  /\ wpc = [c \in StartIds |-> "none"]
  /\ tpc = [k \in StopIds |-> "new"]
  /\ tres = [k \in StopIds |-> "none"]
  /\ ttarget = [k \in StopIds |-> None]
  /\ ffmpeg_log_lines = <<>>
  /\ ffmpeg_log_queue = <<>>
  /\ rpc = [p \in StartIds |-> [o \in Origins |-> "off"]]
  /\ nread = [p \in StartIds |-> [o \in Origins |-> 0]]
  /\ published = <<>>
  /\ ws_pc = [s \in SubIds |-> "new"]
  /\ received = [s \in SubIds |-> <<>>]
  /\ replayed = [s \in SubIds |-> 0]
  /\ attachedAt = [s \in SubIds |-> 0]
  /\ now \in (IF r = "filename" THEN ClockInputs ELSE {ClockStart})
  /\ names = <<>>

\* A replay run begins in the middle of a recording: request 1 was answered
\* started, its process runs, its stdout reader has read n lines and put each
\* in the history and in the queue, and a client that has since gone has taken
\* them from the queue.
InitReplay ==
  \E n \in ReplayStartLens :
    /\ run = "replay"
    /\ ffmpeg_process = 1
    /\ shutdown_event = FALSE
    /\ server = "up"
    /\ proc = [p \in StartIds |-> IF p = 1 THEN "alive" ELSE "none"]
    /\ sigint = [p \in StartIds |-> 0]
    /\ sigterm = [p \in StartIds |-> FALSE]
    /\ spc = [c \in StartIds |-> IF c = 1 THEN "done" ELSE "new"]
    /\ sres = [c \in StartIds |-> IF c = 1 THEN "started" ELSE "none"]
    /\ peers = [c \in StartIds |-> {}]
    /\ wpc = [c \in StartIds |-> IF c = 1 THEN "wait" ELSE "none"]
    /\ tpc = [k \in StopIds |-> "new"]
    /\ tres = [k \in StopIds |-> "none"]
    /\ ttarget = [k \in StopIds |-> None]
    /\ ffmpeg_log_lines = [i \in 1..n |-> LogEntry(1, "stdout", i)]
    /\ ffmpeg_log_queue = <<>>
    /\ rpc = [p \in StartIds |-> [o \in Origins |-> IF p = 1 THEN "loop" ELSE "off"]]
    /\ nread = [p \in StartIds |->
                 [o \in Origins |-> IF p = 1 /\ o = "stdout" THEN n ELSE 0]]
    /\ published = [i \in 1..n |-> LogEntry(1, "stdout", i)]
    /\ ws_pc = [s \in SubIds |-> "new"]
    /\ received = [s \in SubIds |-> <<>>]
    /\ replayed = [s \in SubIds |-> 0]
    /\ attachedAt = [s \in SubIds |-> 0]
    /\ now = ClockStart
    /\ names = <<>>

Init == (\E r \in Runs \ {"replay"} : InitRun(r)) \/ InitReplay

\* Threads run until os._exit; the event loop (which runs the request dispatch
\* and the websocket coroutines) shares the main thread with the signal
\* handler, so it makes no step once the handler has begun.
ThreadsRun == server # "exited"
LoopRuns == server = "up"

\* ---------------------------------------------------------- start_recording
InFlightStarts == {c \in StartIds : spc[c] = "check"}

\* POST /start arrives; requests are numbered in arrival order.
StartCall(c) ==
  /\ LoopRuns
  /\ spc[c] = "new"
  /\ c <= Bounds(run).starts
  /\ \A d \in StartIds : d < c => spc[d] # "new"
  /\ spc' = [spc EXCEPT ![c] = "check"]
  /\ UNCHANGED <<life, files, sres, peers, wpc, stops, logs, readers, subs>>

StartReturn(c, r) ==
  /\ spc' = [spc EXCEPT ![c] = "done"]
  /\ sres' = [sres EXCEPT ![c] = r]

\* Lines 347-361, after is_recording() was false, for a request with the
\* parameters in.cfg to which the device enumeration returns in.devs: the
\* validation; then the worker thread is started and the request returns.
\* (The parameters are read nowhere else, so they are no part of the state.)
StartProceedWith(c, in) ==
  IF InvalidReason(in.cfg, in.devs) # "ok"
    THEN /\ StartReturn(c, "InvalidConfig")
         /\ UNCHANGED <<wpc, peers>>
    ELSE /\ StartReturn(c, "started")
         /\ wpc' = [wpc EXCEPT ![c] = "popen"]
         /\ peers' = [peers EXCEPT ![c] = InFlightStarts \ {c}]

StartProceed(c) == \E in \in Bounds(run).inputs : StartProceedWith(c, in)

\* start_recording with line 345 answering nothing.
StartCheckUnguarded(c) ==
  /\ ThreadsRun
  /\ spc[c] = "check"
  /\ StartProceed(c)
  /\ UNCHANGED <<life, files, stops, logs, readers, subs>>

\* Lines 345-361: "Already recording" while is_recording(), else the rest.
StartCheck(c) ==
  /\ ThreadsRun
  /\ spc[c] = "check"
  /\ IF is_recording
       THEN StartReturn(c, "AlreadyRunning") /\ UNCHANGED <<wpc, peers>>
       ELSE StartProceed(c)
  /\ UNCHANGED <<life, files, stops, logs, readers, subs>>

\* ------------------------------------------------------------ ffmpeg_worker
\* subprocess.Popen(cmd, ...) and the assignment of the global; Popen raising
\* (the binary cannot be launched) ends the thread with the global untouched.
WorkerPopen(w) ==
  /\ ThreadsRun
  /\ wpc[w] = "popen"
  /\ \E launched \in BOOLEAN :
       IF launched
         THEN /\ proc' = [proc EXCEPT ![w] = "alive"]
              /\ ffmpeg_process' = w
              /\ wpc' = [wpc EXCEPT ![w] = "clear"]
         ELSE /\ wpc' = [wpc EXCEPT ![w] = "done"]
              /\ UNCHANGED <<proc, ffmpeg_process>>
  /\ UNCHANGED <<run, files, shutdown_event, server, sigint, sigterm, starts, stops, logs,
                 readers, subs>>

\* ffmpeg_log_lines.clear(), then the two reader threads are started.
WorkerClear(w) ==
  /\ ThreadsRun
  /\ wpc[w] = "clear"
  /\ ffmpeg_log_lines' = <<>>
  /\ rpc' = [rpc EXCEPT ![w] = [o \in Origins |-> "loop"]]
  /\ wpc' = [wpc EXCEPT ![w] = "wait"]
  /\ UNCHANGED <<life, files, starts, stops, ffmpeg_log_queue, published, nread, subs>>

\* ffmpeg_worker without its finally clause.
WorkerReapNoReset(w) ==
  /\ ThreadsRun
  /\ wpc[w] = "wait"
  /\ proc[w] = "exited"
  /\ wpc' = [wpc EXCEPT ![w] = "done"]
  /\ UNCHANGED <<life, files, starts, stops, logs, readers, subs>>

\* ffmpeg_process.wait() has returned; finally: ffmpeg_process = None.
WorkerReap(w) ==
  /\ ThreadsRun
  /\ wpc[w] = "wait"
  /\ proc[w] = "exited"
  /\ ffmpeg_process' = None
  /\ wpc' = [wpc EXCEPT ![w] = "done"]
  /\ UNCHANGED <<run, files, shutdown_event, server, proc, sigint, sigterm, starts, stops,
                 logs, readers, subs>>

\* -------------------------------------------------------------- read_output
\* One turn of "for line in pipe": the next line arrives, the event is
\* tested, the entry is appended to the history (line 229).
ReaderLine(p, o) ==
  /\ ThreadsRun
  /\ rpc[p][o] = "loop"
  /\ IF shutdown_event
       THEN /\ rpc' = [rpc EXCEPT ![p][o] = "done"]
            /\ UNCHANGED <<ffmpeg_log_lines, published, nread>>
       ELSE /\ Len(published) < Bounds(run).lines
            /\ nread' = [nread EXCEPT ![p][o] = @ + 1]
            /\ ffmpeg_log_lines' =
                 DequeAppend(ffmpeg_log_lines, LogEntry(p, o, nread[p][o] + 1))
            /\ published' = Append(published, LogEntry(p, o, nread[p][o] + 1))
            /\ rpc' = [rpc EXCEPT ![p][o] = "put"]
  /\ UNCHANGED <<life, files, starts, wpc, stops, ffmpeg_log_queue, subs>>

\* read_output putting into a queue of one place: put() waits while it is full.
ReaderPutWaits(p, o) ==
  /\ ThreadsRun
  /\ rpc[p][o] = "put"
  /\ Len(ffmpeg_log_queue) < 1
  /\ ffmpeg_log_queue' = Append(ffmpeg_log_queue, LogEntry(p, o, nread[p][o]))
  /\ rpc' = [rpc EXCEPT ![p][o] = "loop"]
  /\ UNCHANGED <<life, files, starts, wpc, stops, ffmpeg_log_lines, published, nread, subs>>

\* ffmpeg_log_queue.put(log_entry) (line 230).
ReaderPut(p, o) ==
  /\ ThreadsRun
  /\ rpc[p][o] = "put"
  /\ ffmpeg_log_queue' = Append(ffmpeg_log_queue, LogEntry(p, o, nread[p][o]))
  /\ rpc' = [rpc EXCEPT ![p][o] = "loop"]
  /\ UNCHANGED <<life, files, starts, wpc, stops, ffmpeg_log_lines, published, nread, subs>>

\* ------------------------------------------------------ the capture process
Signalled(p) == sigint[p] > 0 \/ sigterm[p]

\* The child ends after a signal it was sent.
ProcExitOnSignal(p) ==
  /\ proc[p] = "alive"
  /\ Signalled(p)
  /\ proc' = [proc EXCEPT ![p] = "exited"]
  /\ UNCHANGED <<run, files, ffmpeg_process, shutdown_event, server, sigint, sigterm,
                 starts, wpc, stops, logs, readers, subs>>

\* The child ends on its own (a device error, a crash).
ProcExitAlone(p) ==
  /\ proc[p] = "alive"
  /\ ~Signalled(p)
  /\ proc' = [proc EXCEPT ![p] = "exited"]
  /\ UNCHANGED <<run, files, ffmpeg_process, shutdown_event, server, sigint, sigterm,
                 starts, wpc, stops, logs, readers, subs>>

\* ----------------------------------------------------------- stop_recording
StopCall(k) ==
  /\ LoopRuns
  /\ tpc[k] = "new"
  /\ k <= Bounds(run).stops
  /\ \A j \in StopIds : j < k => tpc[j] # "new"
  /\ tpc' = [tpc EXCEPT ![k] = "check"]
  /\ UNCHANGED <<life, files, starts, wpc, tres, ttarget, logs, readers, subs>>

StopReturn(k, r) ==
  /\ tpc' = [tpc EXCEPT ![k] = "done"]
  /\ tres' = [tres EXCEPT ![k] = r]

\* stop_recording with line 366 answering nothing.
StopCheckUnguarded(k) ==
  /\ ThreadsRun
  /\ tpc[k] = "check"
  /\ tpc' = [tpc EXCEPT ![k] = "signal"]
  /\ UNCHANGED tres
  /\ UNCHANGED <<life, files, starts, wpc, ttarget, logs, readers, subs>>

\* Lines 366-367: "Not recording" unless is_recording().
StopCheck(k) ==
  /\ ThreadsRun
  /\ tpc[k] = "check"
  /\ IF is_recording
       THEN /\ tpc' = [tpc EXCEPT ![k] = "signal"]
            /\ UNCHANGED tres
       ELSE StopReturn(k, "NotRunning")
  /\ UNCHANGED <<life, files, starts, wpc, ttarget, logs, readers, subs>>

\* stop_recording answering without sending the signal.
StopSignalNotSent(k) ==
  /\ ThreadsRun
  /\ tpc[k] = "signal"
  /\ IF ffmpeg_process = None
       THEN /\ StopReturn(k, "ServerError")
            /\ UNCHANGED ttarget
       ELSE /\ StopReturn(k, "stopping")
            /\ ttarget' = [ttarget EXCEPT ![k] = ffmpeg_process]
  /\ UNCHANGED <<run, files, ffmpeg_process, shutdown_event, server, proc, sigint, sigterm,
                 starts, wpc, logs, readers, subs>>

\* Line 368: ffmpeg_process.send_signal(signal.SIGINT) on the global as it is
\* now: an AttributeError on a cleared handle (the request fails), nothing sent
\* to a child that has ended. Line 369: the answer.
StopSignal(k) ==
  /\ ThreadsRun
  /\ tpc[k] = "signal"
  /\ IF ffmpeg_process = None
       THEN /\ StopReturn(k, "ServerError")
            /\ UNCHANGED <<sigint, ttarget>>
       ELSE /\ StopReturn(k, "stopping")
            /\ ttarget' = [ttarget EXCEPT ![k] = ffmpeg_process]
            /\ sigint' = [sigint EXCEPT ![ffmpeg_process] =
                            IF Alive(ffmpeg_process) THEN @ + 1 ELSE @]
  /\ UNCHANGED <<run, files, ffmpeg_process, shutdown_event, server, proc, sigterm,
                 starts, wpc, logs, readers, subs>>

\* ----------------------------------------------------------- websocket_logs
\* accept, ws_connections.add, and the replay of list(ffmpeg_log_lines)[-200:].
WsAttach(s) ==
  /\ LoopRuns
  /\ ws_pc[s] = "new"
  /\ s <= Bounds(run).subs
  /\ \A t \in SubIds : t < s => ws_pc[t] # "new"
  /\ ws_pc' = [ws_pc EXCEPT ![s] = "live"]
  /\ received' = [received EXCEPT ![s] = LastN(ffmpeg_log_lines, REPLAY_LEN)]
  /\ replayed' = [replayed EXCEPT ![s] = Len(LastN(ffmpeg_log_lines, REPLAY_LEN))]
  /\ attachedAt' = [attachedAt EXCEPT ![s] = Len(published)]
  /\ UNCHANGED <<life, files, starts, wpc, stops, logs, readers>>

\* One turn of the loop with an entry in the queue: get_nowait, send_json.
\* The send to a client that has gone raises, and the handler ends.
WsForward(s) ==
  /\ LoopRuns
  /\ ws_pc[s] \in {"live", "gone"}
  /\ ~shutdown_event
  /\ ffmpeg_log_queue # <<>>
  /\ ffmpeg_log_queue' = Tail(ffmpeg_log_queue)
  /\ IF ws_pc[s] = "live"
       THEN /\ received' = [received EXCEPT ![s] = Append(@, Head(ffmpeg_log_queue))]
            /\ UNCHANGED ws_pc
       ELSE /\ ws_pc' = [ws_pc EXCEPT ![s] = "closed"]
            /\ UNCHANGED received
  /\ UNCHANGED <<life, files, starts, wpc, stops, ffmpeg_log_lines, published, readers,
                 replayed, attachedAt>>

\* The client closes its connection; the handler is not told.
ClientGone(s) ==
  /\ ws_pc[s] = "live"
  /\ ws_pc' = [ws_pc EXCEPT ![s] = "gone"]
  /\ UNCHANGED <<life, files, starts, wpc, stops, logs, readers, received, replayed,
                 attachedAt>>

ws_connections == {s \in SubIds : ws_pc[s] \in {"live", "gone"}}

\* ----------------------------------------------------------- signal_handler
\* SIGINT / SIGTERM to the server. Line 21: shutdown_event.set().
HandlerSet ==
  /\ server = "up"
  /\ shutdown_event' = TRUE
  /\ server' = "terminate"
  /\ UNCHANGED <<run, files, ffmpeg_process, proc, sigint, sigterm, starts, wpc, stops,
                 logs, readers, subs>>

\* Lines 22-24: terminate() the child the global names, if it is running,
\* then os._exit(0).
HandlerTerminateExit ==
  /\ server = "terminate"
  /\ sigterm' = IF is_recording THEN [sigterm EXCEPT ![ffmpeg_process] = TRUE]
                ELSE sigterm
  /\ server' = "exited"
  /\ UNCHANGED <<run, files, ffmpeg_process, shutdown_event, proc, sigint, starts, wpc,
                 stops, logs, readers, subs>>

\* ------------------------------------------------------ the output file name
\* Line 357 of start_recording, for a request whose format passed line 351.
\* The name goes into the command line and the answer and is read nowhere
\* else, so the steps of start_recording above carry no name; the function is
\* run here, in the filename runs, against the clock.
GetOutputFilename ==
  /\ run = "filename"
  /\ Len(names) < FilenameCalls
  /\ \E format \in FORMATS :
       names' = Append(names, [at |-> now, format |-> format,
                               file |-> get_output_filename(now, format)])
  /\ UNCHANGED <<life, starts, wpc, stops, logs, readers, subs, now>>

\* A second passes, once after a name was generated.
ClockTick ==
  /\ run = "filename"
  /\ names # <<>>
  /\ now = names[Len(names)].at
  /\ now' = NextSecond(now)
  /\ UNCHANGED <<life, starts, wpc, stops, logs, readers, subs, names>>

NextFilename == GetOutputFilename \/ ClockTick

\* --------------------------------------------------------------------- Next
\* The steps of the request handlers, the worker threads, the capture
\* processes and the signal handler.
NextSession ==
  \/ \E c \in StartIds : StartCall(c)
  \/ \E c \in StartIds : StartCheck(c)
  \/ \E w \in StartIds : WorkerPopen(w)
  \/ \E w \in StartIds : WorkerClear(w)
  \/ \E w \in StartIds : WorkerReap(w)
  \/ \E p \in StartIds : ProcExitOnSignal(p)
  \/ \E p \in StartIds : ProcExitAlone(p)
  \/ \E k \in StopIds : StopCall(k)
  \/ \E k \in StopIds : StopCheck(k)
  \/ \E k \in StopIds : StopSignal(k)
  \/ HandlerSet
  \/ HandlerTerminateExit

\* The steps of the reader threads and the websocket handlers.
NextLog ==
  \/ \E p \in StartIds, o \in Origins : ReaderLine(p, o)
  \/ \E p \in StartIds, o \in Origins : ReaderPut(p, o)
  \/ \E s \in SubIds : WsAttach(s)
  \/ \E s \in SubIds : WsForward(s)
  \/ \E s \in SubIds : ClientGone(s)

Next == NextSession \/ NextLog \/ NextFilename

Spec == Init /\ [][Next]_vars

\* The session runs alone. No step of NextLog writes a variable that a step of
\* NextSession reads, and a session run has no line to read and no client, so
\* these are the session runs of Spec.
SessionSpec == InitRun("session") /\ [][NextSession]_vars

\* The stopping runs alone, for the same reason.
StoppingSpec == InitRun("stopping") /\ [][NextSession]_vars

\* The session runs under the scheduling the program has: a child that was
\* sent a signal ends, and a worker thread that can take its next step (past
\* Popen: the clear, and the reset once wait() has returned) takes it.
LiveSpec ==
  /\ SessionSpec
  /\ \A p \in StartIds : WF_vars(ProcExitOnSignal(p))
  /\ \A w \in StartIds : WF_vars(WorkerClear(w)) /\ WF_vars(WorkerReap(w))

\* The steps of a run with no stop request: the start requests, the worker
\* threads, the capture processes, the signal handler, the reader threads and
\* the websocket handlers.
NextFanout ==
  \/ \E c \in StartIds : StartCall(c)
  \/ \E c \in StartIds : StartCheck(c)
  \/ \E w \in StartIds : WorkerPopen(w)
  \/ \E w \in StartIds : WorkerClear(w)
  \/ \E w \in StartIds : WorkerReap(w)
  \/ \E p \in StartIds : ProcExitOnSignal(p)
  \/ \E p \in StartIds : ProcExitAlone(p)
  \/ HandlerSet
  \/ HandlerTerminateExit
  \/ NextLog

\* The replay runs: the reader threads and the websocket handlers.
ReplaySpec == InitReplay /\ [][NextLog]_vars

\* The filename runs alone.
FilenameSpec == InitRun("filename") /\ [][NextFilename]_vars

\* The fan-out runs alone: they have no stop request.
FanoutSpec == InitRun("fanout") /\ [][NextFanout]_vars

\* The fan-out runs under the scheduling the program has: a reader thread that
\* can put its entry in the queue does so, the loop of a websocket handler
\* takes the entry there is to take, and the signal handler, once begun, runs
\* to its os._exit.
FairFanoutSpec ==
  /\ FanoutSpec
  /\ \A p \in StartIds, o \in Origins : WF_vars(ReaderPut(p, o))
  /\ \A s \in SubIds : WF_vars(WsForward(s))
  /\ WF_vars(HandlerTerminateExit)

\* ------------------------------------------------------------------ claims
AliveProcs == {p \in StartIds : proc[p] = "alive"}

Range(xs) == {xs[i] : i \in DOMAIN xs}
Count(xs, e) == Cardinality({i \in DOMAIN xs : xs[i] = e})

\* What client s was sent after its replay.
LivePart(s) == SubSeq(received[s], replayed[s] + 1, Len(received[s]))

\* An entry that is still on its way to the clients: in the queue, or appended
\* to the history by a reader that has yet to put it in the queue.
Pending(e) ==
  \/ e \in Range(ffmpeg_log_queue)
  \/ \E p \in StartIds, o \in Origins : rpc[p][o] = "put" /\ e = LogEntry(p, o, nread[p][o])

\* C1: of start requests that are in flight together while no recording runs,
\* at most one returns success.
C1_OneConcurrentStartSucceeds ==
  \A c1, c2 \in StartIds :
    (c1 # c2 /\ sres[c1] = "started" /\ sres[c2] = "started") => c2 \notin peers[c1]

\* C2: at most one capture process spawned by the server is alive.
C2_AtMostOneProcessAlive == Cardinality(AliveProcs) <= 1

\* C3: a client that is attached has been sent, exactly once, every entry
\* published since it attached that is no longer on its way, and the entries of
\* one stream of one process in the order they were read.
C3_EveryAttachedClientGetsEveryEntry ==
  \A s \in SubIds :
    ws_pc[s] = "live" =>
      /\ \A i \in (attachedAt[s] + 1)..Len(published) :
           /\ Count(LivePart(s), published[i]) <= 1
           /\ Count(LivePart(s), published[i]) = 1 \/ Pending(published[i])
      /\ \A i, j \in DOMAIN LivePart(s) :
           (/\ i < j
            /\ LivePart(s)[i].type = LivePart(s)[j].type
            /\ LivePart(s)[i].data[1] = LivePart(s)[j].data[1])
           => LivePart(s)[i].data[2] < LivePart(s)[j].data[2]

\* C4: what the only client there is was sent, replay and live entries
\* together, holds no entry twice, and holds every entry published since its
\* snapshot that is no longer on its way.
C4_NoDuplicateNoGapAtSeam ==
  \A s \in SubIds :
    (ws_pc[s] = "live" /\ \A t \in SubIds \ {s} : ws_pc[t] = "new") =>
      /\ \A e \in Range(received[s]) : Count(received[s], e) = 1
      /\ \A i \in (attachedAt[s] + 1)..Len(published) :
           published[i] \in Range(received[s]) \/ Pending(published[i])

\* C5: once the server has exited on a termination signal, no capture process
\* is alive.
C5_NoChildOutlivesServer == server = "exited" => AliveProcs = {}

C7_StatusIffProcessAlive == status.recording <=> AliveProcs # {}

\* C8: a start request that has returned success has spawned its process.
C8_StartedMeansSpawned ==
  \A c \in StartIds : sres[c] = "started" => proc[c] \in {"alive", "exited"}

\* C9: a start request that makes its check while a recording runs answers
\* AlreadyRunning, starts no worker and leaves the handle, the processes and
\* the signals sent as they are.
C9_StartWhileRunningRejected ==
  [][\A c \in StartIds :
       (is_recording /\ spc[c] = "check" /\ spc'[c] = "done") =>
         /\ sres'[c] = "AlreadyRunning"
         /\ UNCHANGED <<ffmpeg_process, proc, wpc, sigint, sigterm>>]_vars

\* C9 happens: a start request was answered AlreadyRunning and the recording
\* runs on.
C9_Witness ==
  \E c \in StartIds : sres[c] = "AlreadyRunning" /\ is_recording /\ wpc[c] = "none"

\* The parameters the claim accepts: every field in its enumerated set, both
\* devices given and in the lists enumerated for the request.
AcceptedConfig(in) ==
  /\ in.cfg.bitrate \in {"500k", "1M", "2M", "4M"}
  /\ in.cfg.resolution \in RESOLUTIONS
  /\ in.cfg.format \in {"mp4", "avi"}
  /\ in.cfg.audio_device # Missing /\ in.cfg.audio_device \in in.devs.audio
  /\ in.cfg.video_device # Missing /\ in.cfg.video_device \in in.devs.video

\* C10: a start request that makes its check while nothing records and whose
\* parameters are not accepted answers InvalidConfig, starts no worker and leaves the handle and
\* the processes as they are.
C10_InvalidConfigRejected ==
  [][\A c \in StartIds, in \in Inputs :
       (/\ spc[c] = "check"
        /\ spc'[c] = "done"
        /\ ~is_recording
        /\ StartProceedWith(c, in)
        /\ ~AcceptedConfig(in)) =>
         /\ sres'[c] = "InvalidConfig"
         /\ UNCHANGED <<ffmpeg_process, proc, wpc>>
         /\ ~is_recording']_vars

\* C10 happens: a start request was answered InvalidConfig, has no worker, and
\* nothing records.
C10_Witness ==
  \E c \in StartIds : sres[c] = "InvalidConfig" /\ wpc[c] = "none" /\ ~is_recording

\* The launch of the process of start request c has failed: its worker thread
\* has ended without a process.
LaunchFailed(c) == wpc[c] = "done" /\ proc[c] = "none"

\* C11: a start request whose capture process could not be launched has
\* answered ProcessSpawnFailure, not success.
C11_SpawnFailureReported ==
  \A c \in StartIds : LaunchFailed(c) => sres[c] = "ProcessSpawnFailure"

\* C12: a stop request that makes its check while nothing records answers
\* NotRunning there and then, and leaves the handle, the processes, the signals
\* sent, the workers and the start requests as they are.
C12_StopWhileIdleRejected ==
  [][\A k \in StopIds :
       (~is_recording /\ tpc[k] = "check" /\ tpc'[k] # "check") =>
         /\ tpc'[k] = "done"
         /\ tres'[k] = "NotRunning"
         /\ UNCHANGED <<ffmpeg_process, proc, sigint, sigterm, wpc, spc, sres>>]_vars

\* C12 happens: a stop request was answered NotRunning while nothing records,
\* and no process was ever sent a signal.
C12_Witness ==
  \E k \in StopIds :
    /\ tres[k] = "NotRunning"
    /\ ~is_recording
    /\ \A p \in StartIds : sigint[p] = 0 /\ ~sigterm[p]

\* A stop request has succeeded for the process the handle names and that
\* process has not ended yet.
Stopping ==
  \E j \in StopIds :
    tres[j] = "stopping" /\ ttarget[j] = ffmpeg_process /\ Alive(ffmpeg_process)

\* C13: a stop request that makes its check after another has succeeded, while
\* the process has not ended, answers NotRunning there and then, and no second
\* signal is sent to the process.
C13_SecondStopRejected ==
  [][\A k \in StopIds :
       (Stopping /\ tpc[k] = "check" /\ tpc'[k] # "check") =>
         /\ tpc'[k] = "done"
         /\ tres'[k] = "NotRunning"]_vars

SessionOf(w) == wpc[w] = "wait" /\ ffmpeg_process = w

\* C15: once the session of a process has started, with every other worker
\* thread ended before it began, the history holds entries of that process
\* only.
C15_HistoryOfCurrentSessionOnly ==
  \A w \in StartIds :
    (/\ SessionOf(w)
     /\ \A q \in StartIds \ {w} :
          wpc[q] \in {"none", "done"} /\ q \notin peers[w] /\ w \notin peers[q]) =>
      \A i \in DOMAIN ffmpeg_log_lines : ffmpeg_log_lines[i].data[1] = w

\* C16: in a fan-out run with a client attached, the entries waiting in the
\* queue are fewer than the lines the process prints in the run: some fixed
\* depth below that number is never exceeded, the entry that finds the queue
\* full being dropped.
C16_PendingEntriesBounded ==
  (run = "fanout" /\ \E s \in SubIds : ws_pc[s] = "live") =>
    Len(ffmpeg_log_queue) < FanoutLines

\* C17: a reader that has read a line has appended its entry to the history
\* in that step, and from holding the entry it comes back to reading the next
\* line (unless the server exits first), whatever the websocket clients do.
C17_PublishNeverWaits ==
  /\ [][\A p \in StartIds, o \in Origins :
          (rpc[p][o] = "loop" /\ rpc'[p][o] = "put") =>
            /\ ffmpeg_log_lines' # <<>>
            /\ ffmpeg_log_lines'[Len(ffmpeg_log_lines')] = LogEntry(p, o, nread'[p][o])]_vars
  /\ \A p \in StartIds, o \in Origins :
       (rpc[p][o] = "put") ~> (rpc[p][o] = "loop" \/ server = "exited")

\* C17 happens: with no client ever attached, every line of the run is in the
\* history and in the queue, and the readers are back at reading.
C17_Witness ==
  /\ \A s \in SubIds : ws_pc[s] = "new"
  /\ Len(ffmpeg_log_lines) = FanoutLines
  /\ Len(ffmpeg_log_queue) = FanoutLines
  /\ \A p \in StartIds, o \in Origins : rpc[p][o] # "put"

\* The entries process w has published so far, in the order it published them.
PublishedBy(w) == SelectSeq(published, LAMBDA e : e.data[1] = w)

\* C18: the history never holds more than its capacity, and once the session
\* of a process has started, with every other worker thread ended before it
\* began, the history is the most recent entries of that process, as many as
\* the capacity allows, in the order they were published.
C18_HistoryIsRecentWindow ==
  /\ Len(ffmpeg_log_lines) <= HISTORY_MAXLEN
  /\ \A w \in StartIds :
       (/\ SessionOf(w)
        /\ \A q \in StartIds \ {w} :
             wpc[q] \in {"none", "done"} /\ q \notin peers[w] /\ w \notin peers[q]) =>
         ffmpeg_log_lines = LastN(PublishedBy(w), HISTORY_MAXLEN)

\* The extension the claim gives each container format.
ExtensionOf(f) == IF f = "mp4" THEN ".mp4" ELSE IF f = "avi" THEN ".avi" ELSE "?"

\* C19: file names generated at readings of the clock one second apart differ,
\* and every file name ends in the extension of the format it was generated
\* for.
C19_FilenamesDifferAndCarryExtension ==
  /\ \A i, j \in DOMAIN names :
       names[j].at = NextSecond(names[i].at) => names[i].file # names[j].file
  /\ \A i \in DOMAIN names :
       names[i].file[Len(names[i].file)] = ExtensionOf(names[i].format)

\* C19 happens: two names were generated for the same format one second
\* apart, across the turn of a minute.
C19_Witness ==
  \E i, j \in DOMAIN names :
    /\ names[j].at = NextSecond(names[i].at)
    /\ names[i].format = names[j].format
    /\ names[i].at.s = 59

\* C20: the handler of a client that has closed its connection comes to its
\* end (or the server exits), whether or not another entry is published.
C20_HandlerEndsAfterClose ==
  \A s \in SubIds :
    (ws_pc[s] = "gone") ~> (ws_pc[s] = "closed" \/ server = "exited")

\* The window the replay and the pull hold: the last min(200, Len(h)) entries
\* of h, in the order of h.
RecentWindow(h) ==
  [i \in 1..(IF Len(h) < 200 THEN Len(h) ELSE 200) |->
     h[Len(h) - (IF Len(h) < 200 THEN Len(h) ELSE 200) + i]]

\* C21: the step in which a client attaches sends it the most recent
\* min(200, length) entries of the history as it is at that step, in order, and
\* the pull of that moment returns the same; what a client was sent as its
\* replay stays the head of what it was sent, the live entries coming after.
C21_ReplayIsRecentWindow ==
  [][\A s \in SubIds :
       /\ (ws_pc[s] = "new" /\ ws_pc'[s] # "new") =>
            /\ received'[s] = RecentWindow(ffmpeg_log_lines)
            /\ replayed'[s] = Len(RecentWindow(ffmpeg_log_lines))
            /\ get_logs.logs = received'[s]
       /\ ws_pc[s] # "new" =>
            /\ replayed'[s] = replayed[s]
            /\ SubSeq(received'[s], 1, replayed[s]) = SubSeq(received[s], 1, replayed[s])
            /\ Len(received'[s]) >= Len(received[s])]_vars

\* C21 happens: a client attached to a history of more than 200 entries has
\* its 200 and a live entry after them.
C21_Witness ==
  \E s \in SubIds :
    /\ ws_pc[s] = "live"
    /\ replayed[s] = 200
    /\ Len(received[s]) > 200
    /\ received[s][1] # published[1]

\* C22: once the worker of a process that ended with no signal sent to it has
\* reset the handle, an entry that is no line of stdout or stderr, recording the
\* end of that process, has been published.
C22_UnexpectedExitLogged ==
  \A p \in StartIds :
    (proc[p] = "exited" /\ ~Signalled(p) /\ wpc[p] = "done") =>
      \E i \in DOMAIN published :
        published[i].data[1] = p /\ published[i].type \notin Origins

\* C23: every stop request ends with NotRunning or with the stopping
\* acknowledgement, never with the error of a signal attempted on a handle
\* that is None.
C23_StopNeverSignalsAbsentHandle ==
  \A k \in StopIds : tres[k] \in {"none", "NotRunning", "stopping"}

\* C24: two entries that are both in the history and in the queue are in the
\* same order in both.
C24_HistoryAndQueueAgree ==
  \A i, j \in DOMAIN ffmpeg_log_lines : \A a, b \in DOMAIN ffmpeg_log_queue :
    (/\ i < j
     /\ ffmpeg_log_queue[a] = ffmpeg_log_lines[i]
     /\ ffmpeg_log_queue[b] = ffmpeg_log_lines[j]) => a < b

====
